---- MODULE Spec2Model ----
(***************************************************************************)
(* Context retrieval and relevance ranking of the AI-assistant backend:    *)
(* ContextService.retrieve_with_memory and the strategies, merger and      *)
(* scorer it calls (src/app/services/context_service.py).                  *)
(*                                                                         *)
(* Scores are integers in thousandths (0.4 is 400).  Days are small        *)
(* integers, 0 standing for a NULL timestamp.  One request is followed     *)
(* from the call to its return or to the exception it lets escape; every   *)
(* await on a backend is one step, with the backend's answer or failure.   *)
(***************************************************************************)
EXTENDS Integers, Sequences, FiniteSets, TLC

VARIABLES
  store,        \* KnowledgeItem rows of the user, with their embeddings and mentions
  chat,         \* ChatMessage rows of the user's recent sessions
  req,          \* arguments of retrieve_with_memory
  pc,           \* position in retrieve_with_memory / retrieve
  analysis,     \* QueryAnalysis returned by the analyzer
  metadata_results,
  temporal_results,
  semantic_results,
  keyword_results,
  results,      \* the list `results` of retrieve
  merged,       \* output of _merge_results, the scorer's input
  items,        \* base_results["items"]
  total,        \* base_results["total"]
  failed,       \* backend calls of this request that failed
  ran,          \* the conditional strategy calls of retrieve that were made
  query,        \* the query text given to QueryAnalyzer.analyze, word by word
  now,          \* datetime.now(timezone.utc) of that call
  llm,          \* what the chat completion of the slow path gave
  fast,         \* the QueryAnalysis as the fast path left it
  result,       \* the QueryAnalysis `result` of analyze
  apc           \* position in QueryAnalyzer.analyze

(* The variables of the retrieval and those of the analyzer. *)
rvars == <<store, chat, req, pc, analysis, metadata_results, temporal_results,
           semantic_results, keyword_results, results, merged, items, total,
           failed, ran>>

avars == <<query, now, llm, fast, result, apc>>

vars == <<store, chat, req, pc, analysis, metadata_results, temporal_results,
          semantic_results, keyword_results, results, merged, items, total,
          failed, ran, query, now, llm, fast, result, apc>>

-----------------------------------------------------------------------------
(* Bounds *)

MaxItems == 2       \* knowledge items in the store (general scenarios)
MaxMsgs == 1        \* chat messages in the conversation store
MaxFailures == 1    \* backend calls that fail within one request
MaxWords == 3       \* words of a query text given to the analyzer

-----------------------------------------------------------------------------
(* Generic list helpers *)

Min(a, b) == IF a < b THEN a ELSE b
Max(a, b) == IF a > b THEN a ELSE b

Take(s, n) == SubSeq(s, 1, Min(n, Len(s)))


RECURSIVE Flatten(_)
Flatten(ss) == IF ss = <<>> THEN <<>> ELSE Head(ss) \o Flatten(Tail(ss))

Ids(s) == {s[i].id : i \in 1..Len(s)}

NoDupIds(s) == \A i, j \in 1..Len(s) : i # j => s[i].id # s[j].id


(* Stable descending sort of a list of <<key, value>> pairs: list.sort(key=...,
   reverse=True) keeps the original order of equal keys. *)
RECURSIVE InsertDesc(_, _)
InsertDesc(sorted, p) ==
  IF sorted = <<>> THEN <<p>>
  ELSE IF Head(sorted)[1] >= p[1]
       THEN <<Head(sorted)>> \o InsertDesc(Tail(sorted), p)
       ELSE <<p>> \o sorted

RECURSIVE SortDescAcc(_, _)
SortDescAcc(acc, rest) ==
  IF rest = <<>> THEN acc
  ELSE SortDescAcc(InsertDesc(acc, Head(rest)), Tail(rest))

SortDesc(pairs) ==
  LET s == SortDescAcc(<<>>, pairs) IN [i \in 1..Len(s) |-> s[i][2]]

RECURSIVE SelectIdx(_, _, _)
(* The indices i of 1..n, in increasing order, that are in the set keep. *)
SelectIdx(i, n, keep) ==
  IF i > n THEN <<>>
  ELSE (IF i \in keep THEN <<i>> ELSE <<>>) \o SelectIdx(i + 1, n, keep)

-----------------------------------------------------------------------------
(* Program constants *)

EXPLICIT_SOURCE_BOOST == 400
EPISODIC_RELEVANCE_THRESHOLD == 300
SAME_SESSION_WEIGHT == 1000
OTHER_SESSION_WEIGHT == 500
TEMPORAL_SCORE == 900
METADATA_SEMANTIC_SCORE == 800
DEFAULT_SEMANTIC_SCORE == 500
EPISODIC_LIMIT == 3
MAX_KEYWORDS == 5

SOURCE_PRIORITY(source) ==
  CASE source \in {"gmail", "outlook"} -> 100
    [] source \in {"gdrive", "onedrive"} -> 80
    [] source = "jira" -> 70
    [] source = "calendar" -> 50
    [] OTHER -> 50

(* The order in which a list of sources is walked. *)
SourceOrder == <<"gmail", "outlook", "gdrive", "onedrive", "jira", "calendar">>

-----------------------------------------------------------------------------
(* The stores and the request *)

(* The user_id argument of the request, and the user_id of another user. *)
UserId == "u1"
OtherUserId == "u2"

(* A KnowledgeItem row with what the backends answer about it for the query:
   sims    cosine similarity of each of its embedding chunks to the query
   fts     ts_rank against the query, 0 when the tsquery does not match
   kw      number of the query's keywords found in title/content/summary
           (it contains the first kw keywords of the query)
   meta    the analyzer entities (by position) its metadata text contains
   mentions  EntityMention rows joining it to the entity searched for
   people  size of _extract_item_entities(item) & the query's entity names *)
Item(src, created, sims, fts, kw, meta, mentions, people) ==
  [owner |-> UserId, src |-> src, created |-> created, sims |-> sims,
   fts |-> fts, kw |-> kw, meta |-> meta, mentions |-> mentions,
   people |-> people]

(* The same row in the corpus of another user. *)
OfOtherUser(row) == [row EXCEPT !.owner = OtherUserId]

ItemKinds ==
  { Item("gmail",    3, <<600>>,      0,    0, {},     0, 1),
    Item("gmail",    2, <<600, 400>>, 999,  2, {1},    1, 3),
    Item("calendar", 1, <<600>>,      0,    0, {},     0, 0),
    Item("gdrive",   0, <<-600>>,     300,  1, {},     0, 0),
    Item("jira",     3, <<>>,         0,    0, {1, 2}, 0, 0),
    Item("jira",     1, <<400>>,      0,    1, {},     1, 0),
    OfOtherUser(Item("gmail", 3, <<900>>, 999, 2, {1, 2}, 1, 0)) }

Stores == UNION { [1..n -> ItemKinds] : n \in 0..MaxItems }

(* What the analyzer extracts from a query text. dateFrom/dateTo 0 = None. *)
Query(entities, sources, temporal, dateFrom, dateTo) ==
  [entities |-> entities, sources |-> sources, is_temporal |-> temporal,
   date_from |-> dateFrom, date_to |-> dateTo]

MailAndDocSources == {"gmail", "outlook", "gdrive", "onedrive"}

Queries ==
  { Query(<<>>,     {},                   FALSE, 0, 0),
    Query(<<1>>,    {"jira"},             FALSE, 0, 0),
    Query(<<1, 2>>, {},                   TRUE,  2, 3),
    Query(<<>>,     {"calendar"},         TRUE,  0, 0),
    Query(<<1>>,    {"gmail", "outlook"}, FALSE, 2, 3),
    Query(<<>>,     {"jira"},             TRUE,  0, 0) }

BalanceQuery == Query(<<>>, MailAndDocSources, TRUE, 0, 0)

(* Arguments of retrieve_with_memory. nkw is the number of words of the query
   text of length >= 3. *)
Request(sources, limit, episodic, nkw, q) ==
  [sources |-> sources, limit |-> limit, include_episodic |-> episodic,
   nkw |-> nkw, query |-> q]

Requests ==
  { Request({}, 2, TRUE, 2, q) :
      q \in {Query(<<>>, {}, FALSE, 0, 0), Query(<<1>>, {"gmail", "outlook"}, FALSE, 2, 3)} }
  \cup { Request(s, l, FALSE, 2, q) :
            s \in {{}, {"jira"}, {"gmail", "calendar"}}, l \in 1..2, q \in Queries }
  \cup { Request({}, 2, FALSE, 0, q) : q \in Queries }
  \cup { Request({}, 2, FALSE, 6, Query(<<>>, {}, FALSE, 0, 0)) }

(* "last emails and last documents", limit 6: n mails and one document, the
   mails newer than the document. *)
BalanceStores ==
  { [i \in 1..(n + 1) |->
       IF i <= n THEN Item("gmail", 3, <<s>>, 0, 0, {}, 0, 0)
                 ELSE Item("gdrive", 1, <<200>>, 0, 0, {}, 0, 0)] :
      n \in {2, 6}, s \in {400, 900} }

BalanceRequest == Request({}, 6, FALSE, 2, BalanceQuery)

(* A temporal request for two sources with limit 2: two mails and an older
   calendar event. *)
RecentStores ==
  { <<Item("gmail", 3, <<s>>, 0, 0, {}, 0, 0),
      Item("gmail", 2, <<s>>, 0, 0, {}, 0, 0),
      Item("calendar", 1, <<s>>, 0, 0, {}, 0, 0)>> : s \in {400, 900} }

RecentRequest ==
  Request({"gmail", "calendar"}, 2, FALSE, 2, Query(<<>>, {"calendar"}, TRUE, 0, 0))

(* A ChatMessage row of one of the user's sessions: whether the session is the
   current one, the message's age in days, and the cosine similarity of its
   embedding to the query's. *)
Msg(current, days, sim) ==
  [owner |-> UserId, current |-> current, days |-> days, sim |-> sim]

MsgKinds ==
  { Msg(TRUE, 0, 900), Msg(FALSE, 40, 400), Msg(FALSE, 0, 200),
    OfOtherUser(Msg(FALSE, 0, 900)) }

Chats == UNION { [1..n -> MsgKinds] : n \in 0..MaxMsgs }

(* Ids of chat messages and of knowledge items are uuid4 values of two tables. *)
MsgId(k) == 100 + k

(* A result dict. has is the set of optional keys it carries, among
   "semantic_score", "fts_rank", "entity_match", "relevance_score". *)
Row(id, src, method, has, sem, fts, ent, score) ==
  [id |-> id, source |-> src, method |-> method, has |-> has,
   semantic_score |-> sem, fts_rank |-> fts, entity_match |-> ent,
   relevance_score |-> score]


-----------------------------------------------------------------------------
(* Retrieval strategies: the SQL each one runs, as a function of the store *)

(* The optional WHERE clauses every strategy appends: `if sources:`,
   `if date_from:`, `if date_to:`. A NULL source_created_at fails a comparison. *)
PassesFilters(it, sources, date_from, date_to) ==
  /\ (sources # {} => it.src \in sources)
  /\ (date_from # 0 => (it.created # 0 /\ it.created >= date_from))
  /\ (date_to # 0 => (it.created # 0 /\ it.created <= date_to))

(* ORDER BY source_created_at DESC in PostgreSQL puts NULLs first. *)
SqlDescKey(created) == IF created = 0 THEN 1000000 ELSE created

(* A query without the user_id clause. *)
OwnedByAnyUser(row) == TRUE

(* .where(KnowledgeItem.user_id == str(user_id)), and for the conversation
   store .where(ChatSession.user_id == str(user_id)) *)
OwnedByUser(row) == row.owner = UserId

(* The rows of a SELECT over knowledge_items, in table order. *)
Matching(hits, sources, date_from, date_to) ==
  SelectIdx(1, Len(store),
            {i \in hits : /\ OwnedByUser(store[i])
                          /\ PassesFilters(store[i], sources, date_from, date_to)})

ByCreatedDesc(idx) ==
  SortDesc([k \in 1..Len(idx) |-> <<SqlDescKey(store[idx[k]].created), idx[k]>>])

(* _semantic_search after a successful create_embedding: one row per embedding
   chunk, ordered by similarity. *)
SemanticRows(sources, date_from, date_to, lim) ==
  LET embedded == {i \in 1..Len(store) : store[i].sims # <<>>}
      idx == Matching(embedded, sources, date_from, date_to)
      chunks == Flatten([k \in 1..Len(idx) |->
                  [c \in 1..Len(store[idx[k]].sims) |->
                     <<store[idx[k]].sims[c], idx[k]>>]])
      top == Take(SortDescAcc(<<>>, chunks), lim)
  IN [k \in 1..Len(top) |->
        Row(top[k][2], store[top[k][2]].src, "semantic", {"semantic_score"},
            top[k][1], 0, 0, 0)]

(* _entity_search: one row per EntityMention of a matching entity. *)
EntityRows(entity_name, sources, date_from, date_to, lim) ==
  LET mentioned == {i \in 1..Len(store) : store[i].mentions > 0}
      idx == ByCreatedDesc(Matching(mentioned, sources, date_from, date_to))
      joined == Flatten([k \in 1..Len(idx) |->
                  [c \in 1..store[idx[k]].mentions |-> idx[k]]])
      top == Take(joined, lim)
  IN [k \in 1..Len(top) |->
        Row(top[k], store[top[k]].src, "entity", {"entity_match"},
            0, 0, entity_name, 0)]

(* _metadata_search for one entity of the list. *)
MetadataRowsOf(entity, sources, date_from, date_to, lim) ==
  LET containing == {i \in 1..Len(store) : entity \in store[i].meta}
      top == Take(ByCreatedDesc(Matching(containing, sources, date_from, date_to)), lim)
  IN [k \in 1..Len(top) |->
        Row(top[k], store[top[k]].src, "metadata",
            {"semantic_score", "entity_match"},
            METADATA_SEMANTIC_SCORE, 0, entity, 0)]

(* _metadata_search: the entities whose position is in failing raise in
   db.execute and are skipped by the except clause. *)
MetadataRows(entities, failing, sources, date_from, date_to, lim) ==
  Flatten([k \in 1..Len(entities) |->
     IF k \in failing THEN <<>>
     ELSE MetadataRowsOf(entities[k], sources, date_from, date_to, lim)])

(* _fulltext_search when db.execute succeeds. *)
FulltextRows(sources, date_from, date_to, lim) ==
  LET hits == {i \in 1..Len(store) : store[i].fts > 0}
      idx == Matching(hits, sources, date_from, date_to)
      top == Take(SortDesc([k \in 1..Len(idx) |-> <<store[idx[k]].fts, idx[k]>>]), lim)
  IN [k \in 1..Len(top) |->
        Row(top[k], store[top[k]].src, "fulltext", {"fts_rank"},
            0, store[top[k]].fts, 0, 0)]

(* Keywords of the query an item contains: `sum(1 for kw in keywords if kw in
   content_lower)`, over all the keywords. *)
KeywordHits(it, nkw) == Min(it.kw, nkw)

(* Keywords among keywords[:5], those of the ILIKE conditions, an item
   contains. *)
ConditionHits(it, nkw) == Min(it.kw, Min(nkw, MAX_KEYWORDS))

(* _keyword_search when db.execute succeeds: the rows matching one of the
   conditions, scored by matches / len(keywords). *)
KeywordRows(nkw, sources, date_from, date_to, lim) ==
  IF nkw = 0 THEN <<>>
  ELSE
    LET hits == {i \in 1..Len(store) : ConditionHits(store[i], nkw) > 0}
        top == Take(ByCreatedDesc(Matching(hits, sources, date_from, date_to)), lim)
    IN [k \in 1..Len(top) |->
          Row(top[k], store[top[k]].src, "keyword", {"semantic_score"},
              (KeywordHits(store[top[k]], nkw) * 1000) \div nkw, 0, 0, 0)]

(* _get_most_recent when every db.execute succeeds. *)
PerSourceLimit(limit, n) == Max(2, limit \div n)

MostRecentRows(sources, limit) ==
  LET every == 1..Len(store)
      srcs == SelectSeq(SourceOrder, LAMBDA x : x \in sources)
      all_items ==
        IF Cardinality(sources) > 1
        THEN Flatten([k \in 1..Len(srcs) |->
               Take(ByCreatedDesc(Matching(every, {srcs[k]}, 0, 0)),
                    PerSourceLimit(limit, Len(srcs)))])
        ELSE Take(ByCreatedDesc(Matching(every, sources, 0, 0)), limit)
      \* key: source_created_at or datetime.min
      top == Take(SortDesc([k \in 1..Len(all_items) |->
                              <<store[all_items[k]].created, all_items[k]>>]), limit)
  IN [k \in 1..Len(top) |->
        Row(top[k], store[top[k]].src, "temporal", {"relevance_score"},
            0, 0, 0, TEMPORAL_SCORE)]

-----------------------------------------------------------------------------
(* Result merger *)

(* An update in which the later dict overwrites the fields it carries. *)
MergeIntoOverwriting(existing, item) ==
  LET take(f) == f \in item.has
  IN [existing EXCEPT
        !.has = existing.has \cup
                  {f \in {"semantic_score", "fts_rank", "entity_match"} : take(f)},
        !.semantic_score = IF take("semantic_score") THEN item.semantic_score ELSE @,
        !.fts_rank = IF take("fts_rank") THEN item.fts_rank ELSE @,
        !.entity_match = IF take("entity_match") THEN item.entity_match ELSE @]

(* The update of an already seen dict by a later one with the same id. *)
MergeInto(existing, item) ==
  LET take(f) == f \in item.has /\ f \notin existing.has
  IN [existing EXCEPT
        !.has = existing.has \cup
                  {f \in {"semantic_score", "fts_rank", "entity_match"} : take(f)},
        !.semantic_score = IF take("semantic_score") THEN item.semantic_score ELSE @,
        !.fts_rank = IF take("fts_rank") THEN item.fts_rank ELSE @,
        !.entity_match = IF take("entity_match") THEN item.entity_match ELSE @]

RECURSIVE MergeAcc(_, _)
MergeAcc(seen, rest) ==
  IF rest = <<>> THEN seen
  ELSE LET item == Head(rest)
           at == {k \in 1..Len(seen) : seen[k].id = item.id}
       IN IF at # {}
          THEN LET k == CHOOSE x \in at : TRUE
               IN MergeAcc([seen EXCEPT ![k] = MergeInto(seen[k], item)], Tail(rest))
          ELSE MergeAcc(Append(seen, item), Tail(rest))

(* A merger that concatenates without deduplicating. *)
merge_without_dedup(rs) == rs

(* A merger that returns the records it kept last-seen first. *)
merge_last_first(rs) ==
  LET m == MergeAcc(<<>>, rs) IN [i \in 1..Len(m) |-> m[Len(m) + 1 - i]]

_merge_results(rs) == MergeAcc(<<>>, rs)


-----------------------------------------------------------------------------
(* Relevance scorer *)

(* now = datetime.now(timezone.utc) of the scorer, as a day: the newest items
   of the store are of the day of the request. *)
RequestDay == 3

(* round(x, 3) of a value given in millionths, as thousandths. *)
Round3(micro) == (micro + 500) \div 1000

(* The recency term of an item with timestamp created. `now` is timezone-aware
   and created.replace(tzinfo=None) is naive: their subtraction raises TypeError,
   which the except clause swallows, leaving recency_score = 0.0. *)
recency_score(created) ==
  IF created = 0 THEN 0 ELSE 0

entity_score(item, people) ==
  LET by_names == Min(300, people * 100)
  IN IF "entity_match" \in item.has /\ item.entity_match # 0
     THEN Max(by_names, 200) ELSE by_names

fts_score_micro(item) ==
  Min(100000, (IF "fts_rank" \in item.has THEN item.fts_rank ELSE 0) * 50)

explicit_source_boost(item, explicit_sources) ==
  IF explicit_sources # {} /\ item.source \in explicit_sources
  THEN EXPLICIT_SOURCE_BOOST ELSE 0

semantic_score(item) ==
  IF "semantic_score" \in item.has THEN item.semantic_score
  ELSE DEFAULT_SEMANTIC_SCORE

final_score(item, explicit_sources) ==
  Round3(semantic_score(item) * 500
         + 1000 * ( recency_score(store[item.id].created)
                  + entity_score(item, store[item.id].people)
                  + SOURCE_PRIORITY(item.source)
                  + explicit_source_boost(item, explicit_sources) )
         + fts_score_micro(item))

_calculate_relevance(its, explicit_sources) ==
  [k \in 1..Len(its) |->
     [its[k] EXCEPT !.has = @ \cup {"relevance_score"},
                    !.relevance_score = final_score(its[k], explicit_sources)]]

(* x.get("relevance_score", 0) *)
ScoreKey(item) == IF "relevance_score" \in item.has THEN item.relevance_score ELSE 0

SortByScore(its) == SortDesc([k \in 1..Len(its) |-> <<ScoreKey(its[k]), its[k]>>])

-----------------------------------------------------------------------------
(* Episodic memory *)

(* The gate kept open for the messages of today. *)
PassesEpisodicGateOrRecent(similarity, m) ==
  ~(similarity < EPISODIC_RELEVANCE_THRESHOLD) \/ m.days = 0

(* `if semantic_similarity < self.EPISODIC_RELEVANCE_THRESHOLD: continue` *)
PassesEpisodicGate(similarity, m) ==
  ~(similarity < EPISODIC_RELEVANCE_THRESHOLD)

(* The relevance without the min(0.5, ...). *)
episodic_relevance_uncapped(m, similarity) ==
  LET session_weight == IF m.current THEN SAME_SESSION_WEIGHT ELSE OTHER_SESSION_WEIGHT
      recency_micro == Max(0, 1000000 - (m.days * 1000000) \div 30)
  IN Round3((similarity * session_weight * 600) \div 1000 + recency_micro \div 5)

(* round(min(0.5, similarity * session_weight * 0.6 + recency_score * 0.2), 3) *)
episodic_relevance(m, similarity) ==
  LET session_weight == IF m.current THEN SAME_SESSION_WEIGHT ELSE OTHER_SESSION_WEIGHT
      recency_micro == Max(0, 1000000 - (m.days * 1000000) \div 30)
  IN Round3(Min(500000, (similarity * session_weight * 600) \div 1000 + recency_micro \div 5))

(* A similarity of 1.0 when one of the vectors is the zero vector. *)
cosine_similarity_one_for_zero(zero_vector, similarity) ==
  IF zero_vector THEN 1000 ELSE similarity

(* EmbeddingService.cosine_similarity of the query's and a message's
   embeddings: `if norm1 == 0 or norm2 == 0: return 0.0` when one of them is
   the zero vector generate_embedding returns on failure. *)
cosine_similarity(zero_vector, similarity) ==
  IF zero_vector THEN 0 ELSE similarity

(* get_episodic_memory over the messages msgs when every db.execute succeeds.
   down holds the positions of the messages whose similarity was computed with
   a zero vector (generate_embedding of the message, or of the query, failed). *)
EpisodicRows(msgs, down, limit) ==
  LET sim(k) == cosine_similarity(k \in down, msgs[k].sim)
      kept == SelectIdx(1, Len(msgs),
                {k \in 1..Len(msgs) : /\ OwnedByUser(msgs[k])
                                      /\ PassesEpisodicGate(sim(k), msgs[k])})
      rows == [j \in 1..Len(kept) |->
                 Row(MsgId(kept[j]), "episodic", "episodic", {"relevance_score"},
                     0, 0, 0, episodic_relevance(msgs[kept[j]], sim(kept[j])))]
  IN Take(SortByScore(rows), limit)

-----------------------------------------------------------------------------
(* Orchestrator helpers *)

(* effective_sources of retrieve_with_memory *)
EffectiveSources(r, a) ==
  IF r.sources = {} /\ a.sources # {} THEN a.sources ELSE r.sources

(* `for item in extra: if item["id"] not in existing_ids: append` *)
RECURSIVE AppendNew(_, _)
AppendNew(base, extra) ==
  IF extra = <<>> THEN base
  ELSE IF Head(extra).id \in Ids(base)
       THEN AppendNew(base, Tail(extra))
       ELSE AppendNew(Append(base, Head(extra)), Tail(extra))

(* base_results["items"][:limit] of retrieve: scored.sort(...); scored[:limit] *)
BaseItems(scored, limit) == Take(SortByScore(scored), limit)

(* STEP 7 without the re-sort, and without the truncation. *)
FinalItemsUnsorted(its, limit) == Take(its, limit)

FinalItemsUncut(its, limit) == SortByScore(its)

(* STEP 7 of retrieve_with_memory *)
FinalItems(its, limit) == Take(SortByScore(its), limit)


(* Keyword search run on every request. *)
RunsKeywordFallbackAlways(semantic, rs) == TRUE

(* Keyword search run only when no strategy at all found anything. *)
RunsKeywordFallbackOnNoResult(semantic, rs) == rs = <<>>

(* Step 4 of retrieve: keyword search runs when semantic search found nothing. *)
RunsKeywordFallback(semantic, rs) == semantic = <<>>

(* Retries without the source filter made whenever a filter is in effect. *)
RunsSourceFallbackAlways(sources, rs) == sources # {}

(* Step 5 of retrieve: `if sources and not results` *)
RunsSourceFallback(sources, rs) == sources # {} /\ rs = <<>>

(* Retries that keep the source filter. *)
RetrySourcesKept(sources) == sources

(* The source filter of the two retries of step 5: None. *)
RetrySources(sources) == {}

CanFail == Cardinality(failed) < MaxFailures

NoAnalysis == Query(<<>>, {}, FALSE, 0, 0)

-----------------------------------------------------------------------------
(* Query analyzer (src/app/services/query_analyzer.py): the query text, the
   clock and the answer of the LLM *)

(* A word of the query text with what the analyzer's patterns find in it:
   sources   the sources of the SOURCE_KEYWORDS occurring in it (substrings)
   month     the number of the leftmost month name or abbreviation occurring in
             it as a substring, 0 when there is none
   is_month  the word is a month name: a month pattern can end and start at
             its ends
   year      the number made of four leading digits, -1 when there are none
   name      the word when it is capitalised and not a skip word, else ""
   is_last   the word ends with "last"
   past, future   a PAST_TEMPORAL / FUTURE_TEMPORAL keyword occurs in it
   relative  the key of relative_patterns occurring in it, else "" *)
Word(text, sources, month, is_month, year, name, is_last, past, future, relative) ==
  [text |-> text, sources |-> sources, month |-> month, is_month |-> is_month,
   year |-> year, name |-> name, is_last |-> is_last, past |-> past,
   future |-> future, relative |-> relative]

Words ==
  { Word("emails",   {"gmail", "outlook"}, 0,  FALSE, -1,   "",     FALSE, FALSE, FALSE, ""),
    Word("tickets",  {"jira"},             0,  FALSE, -1,   "",     FALSE, FALSE, FALSE, ""),
    Word("Mike",     {},                   0,  FALSE, -1,   "Mike", FALSE, FALSE, FALSE, ""),
    Word("november", {},                   11, TRUE,  -1,   "",     FALSE, FALSE, FALSE, ""),
    Word("december", {},                   12, TRUE,  -1,   "",     FALSE, FALSE, FALSE, ""),
    Word("summary",  {},                   3,  FALSE, -1,   "",     FALSE, FALSE, FALSE, ""),
    Word("last",     {},                   0,  FALSE, -1,   "",     TRUE,  TRUE,  FALSE, ""),
    Word("next",     {},                   0,  FALSE, -1,   "",     FALSE, FALSE, TRUE,  ""),
    Word("today",    {},                   0,  FALSE, -1,   "",     FALSE, FALSE, FALSE, "today"),
    Word("2024",     {},                   0,  FALSE, 2024, "",     FALSE, FALSE, FALSE, ""),
    Word("9999",     {},                   0,  FALSE, 9999, "",     FALSE, FALSE, FALSE, "") }

QueryTexts == UNION { [1..n -> Words] : n \in 1..MaxWords }

(* A datetime in UTC: sec is the second of the day. NoDate is None. *)
Date(year, month, day, sec) ==
  [year |-> year, month |-> month, day |-> day, sec |-> sec]

NoDate == Date(0, 0, 0, 0)

(* datetime.now(timezone.utc) *)
Clocks ==
  { Date(2025, 12, 19, 43200), Date(2025, 6, 1, 43200), Date(2024, 11, 5, 43200) }

MINYEAR == 1
MAXYEAR == 9999

IsLeap(year) == year % 4 = 0 /\ (year % 100 # 0 \/ year % 400 = 0)

DaysInMonth(year, month) ==
  IF month = 2 THEN (IF IsLeap(year) THEN 29 ELSE 28)
  ELSE IF month \in {4, 6, 9, 11} THEN 30 ELSE 31

(* datetime(year, month, 1, tzinfo=timezone.utc) raises ValueError outside
   MINYEAR..MAXYEAR. *)
CanConstruct(year) == year >= MINYEAR /\ year <= MAXYEAR

(* datetime(year, month, 1) - timedelta(seconds=1) *)
SecondBefore(year, month) ==
  IF month = 1 THEN Date(year - 1, 12, 31, 86399)
  ELSE Date(year, month - 1, DaysInMonth(year, month - 1), 86399)

(* d + timedelta(days=n) *)
RECURSIVE AddDays(_, _)
AddDays(d, n) ==
  IF n = 0 THEN d
  ELSE IF d.day < DaysInMonth(d.year, d.month)
       THEN AddDays([d EXCEPT !.day = @ + 1], n - 1)
       ELSE IF d.month < 12
            THEN AddDays([d EXCEPT !.day = 1, !.month = @ + 1], n - 1)
            ELSE AddDays([d EXCEPT !.day = 1, !.month = 1, !.year = @ + 1], n - 1)

(* The `if month == 12: ... else: ...` that computes the end of a month; the
   years for which one of its two constructors raises. *)
MonthRangeRaises(year, month) ==
  \/ ~CanConstruct(year)
  \/ month = 12 /\ ~CanConstruct(year + 1)

MonthFrom(year, month) == Date(year, month, 1, 0)

MonthTo(year, month) ==
  IF month = 12 THEN SecondBefore(year + 1, 1) ELSE SecondBefore(year, month + 1)

(* QueryAnalysis; sets stand for the lists made with list(set(...)). *)
QueryAnalysis(entities, sources, date_from, date_to, time_type, intent, is_temporal, confidence) ==
  [entities |-> entities, sources |-> sources, date_from |-> date_from,
   date_to |-> date_to, time_type |-> time_type, intent |-> intent,
   is_temporal |-> is_temporal, confidence |-> confidence]

(* QueryAnalysis(query=query): time_type "" is None. *)
EmptyAnalysis == QueryAnalysis({}, {}, NoDate, NoDate, "", "search", FALSE, 0)

(* A source extraction that adds 0.3 for each source found. *)
_extract_sources_fast_per_source(q, r) ==
  LET sources == UNION {q[i].sources : i \in 1..Len(q)}
  IN [r EXCEPT !.sources = sources,
               !.confidence = @ + 300 * Cardinality(sources)]

(* _extract_sources_fast *)
_extract_sources_fast(q, r) ==
  LET sources == UNION {q[i].sources : i \in 1..Len(q)}
  IN [r EXCEPT !.sources = sources,
               !.confidence = IF sources # {} THEN @ + 300 ELSE @]

(* _extract_entities_fast: the capitalised words other than the first one *)
_extract_entities_fast(q, r) ==
  LET entities == {q[i].name : i \in {j \in 2..Len(q) : q[j].name # ""}}
  IN [r EXCEPT !.entities = entities,
               !.confidence = IF entities # {} THEN @ + 200 ELSE @]

(* Position of the leftmost match of each date pattern of _extract_dates_fast,
   0 when re.search finds none. *)
Leftmost(S) == IF S = {} THEN 0 ELSE CHOOSE i \in S : \A j \in S : i <= j

MonthYearMatch(q) ==
  Leftmost({i \in 1..(Len(q) - 1) : q[i].is_month /\ q[i + 1].year >= 0})

LastMonthMatch(q) ==
  Leftmost({i \in 1..(Len(q) - 1) : q[i].is_last /\ q[i + 1].is_month})

StandaloneMonthMatch(q) == Leftmost({i \in 1..Len(q) : q[i].month # 0})

RelativeMatch(q) == Leftmost({i \in 1..Len(q) : q[i].relative # ""})

(* "last <month>": year = now.year if month < now.month else now.year - 1 *)
LastMonthYear(month, clock) ==
  IF month < clock.month THEN clock.year ELSE clock.year - 1

(* Standalone month: `if month <= now.month: year = now.year`, else the
   previous year. *)
StandaloneMonthYear(month, clock) ==
  IF month <= clock.month THEN clock.year ELSE clock.year - 1

(* The month and year the cascade of patterns picks, <<0, 0>> when none of the
   three month patterns matches. *)
PickedMonth(q, clock) ==
  IF MonthYearMatch(q) # 0
  THEN <<q[MonthYearMatch(q)].month, q[MonthYearMatch(q) + 1].year>>
  ELSE IF LastMonthMatch(q) # 0
  THEN <<q[LastMonthMatch(q) + 1].month,
         LastMonthYear(q[LastMonthMatch(q) + 1].month, clock)>>
  ELSE IF StandaloneMonthMatch(q) # 0
  THEN <<q[StandaloneMonthMatch(q)].month,
         StandaloneMonthYear(q[StandaloneMonthMatch(q)].month, clock)>>
  ELSE <<0, 0>>

(* _extract_dates_fast raises the ValueError of datetime(...). *)
ExtractDatesRaises(q, clock) ==
  /\ PickedMonth(q, clock)[1] # 0
  /\ MonthRangeRaises(PickedMonth(q, clock)[2], PickedMonth(q, clock)[1])

(* _extract_dates_fast when it returns *)
_extract_dates_fast(q, clock, r) ==
  LET month == PickedMonth(q, clock)[1]
      year == PickedMonth(q, clock)[2]
      ranged == [r EXCEPT !.date_from = MonthFrom(year, month),
                          !.date_to = MonthTo(year, month),
                          !.confidence = @ + 300]
  IN IF MonthYearMatch(q) # 0 THEN [ranged EXCEPT !.time_type = "specific"]
     ELSE IF LastMonthMatch(q) # 0 THEN [ranged EXCEPT !.time_type = "past"]
     ELSE IF StandaloneMonthMatch(q) # 0
     THEN [ranged EXCEPT !.time_type = "past", !.is_temporal = TRUE]
     ELSE IF RelativeMatch(q) # 0
     THEN \* "today": (now.replace(hour=0, minute=0, second=0), now, "past")
          [r EXCEPT !.date_from = [clock EXCEPT !.sec = 0],
                    !.date_to = clock,
                    !.time_type = "past",
                    !.confidence = @ + 300]
     ELSE r

(* _detect_temporal_type *)
_detect_temporal_type(q, clock, r) ==
  LET past == \E i \in 1..Len(q) : q[i].past
      future == \E i \in 1..Len(q) : q[i].future
      r1 == IF past
            THEN [r EXCEPT !.is_temporal = TRUE,
                           !.time_type = IF @ = "" THEN "past" ELSE @]
            ELSE r
  IN IF ~future THEN r1
     ELSE IF r1.time_type # "" THEN [r1 EXCEPT !.is_temporal = TRUE]
     ELSE IF r1.date_from # NoDate
     THEN [r1 EXCEPT !.is_temporal = TRUE, !.time_type = "future"]
     ELSE [r1 EXCEPT !.is_temporal = TRUE, !.time_type = "future",
                     !.date_from = clock, !.date_to = AddDays(clock, 30)]

(* What the chat completion gives: the call raises, the content is not JSON,
   or a JSON object. A date field is null, a string fromisoformat rejects, or
   an ISO date. *)
LlmDate(kind, value) == [kind |-> kind, value |-> value]

Null == LlmDate("null", NoDate)
Invalid == LlmDate("invalid", NoDate)
Iso(year, month, day) == LlmDate("date", Date(year, month, day, 0))

LlmAnswer(kind, entities, sources, date_from, date_to, time_type, intent) ==
  [kind |-> kind, entities |-> entities, sources |-> sources,
   date_from |-> date_from, date_to |-> date_to, time_type |-> time_type,
   intent |-> intent]

NoAnswer == LlmAnswer("none", {}, {}, Null, Null, "", "")

LlmAnswers ==
  { LlmAnswer("call_error", {}, {}, Null, Null, "", ""),
    LlmAnswer("unparsable", {}, {}, Null, Null, "", ""),
    LlmAnswer("json", {"Mike"}, {"jira"}, Null, Null, "", "search"),
    LlmAnswer("json", {}, {"calendar"}, Iso(2025, 11, 1), Iso(2025, 11, 30), "specific", "search"),
    LlmAnswer("json", {"Mike"}, {"jira"}, Invalid, Null, "past", "search"),
    LlmAnswer("json", {}, {}, Iso(2025, 11, 1), Invalid, "future", "create"),
    LlmAnswer("json", {}, {}, Null, Null, "future", "create") }

(* The statements of the try block of _analyze_with_llm up to the first that
   raises: the merge is done in place, field after field. *)
FromRaises(r, a) == a.date_from.kind = "invalid" /\ r.date_from = NoDate

ToRaises(r, a) == a.date_to.kind = "invalid" /\ r.date_to = NoDate

LlmRaises(r, a) == a.kind # "json" \/ FromRaises(r, a) \/ ToRaises(r, a)

_analyze_with_llm(r, a) ==
  LET r1 == [r EXCEPT !.entities = @ \cup a.entities,
                      !.sources = @ \cup a.sources]
      r2 == [r1 EXCEPT !.date_from = IF a.date_from.kind = "date" /\ @ = NoDate
                                     THEN a.date_from.value ELSE @]
      r3 == [r2 EXCEPT !.date_to = IF a.date_to.kind = "date" /\ @ = NoDate
                                   THEN a.date_to.value ELSE @]
  IN IF a.kind # "json" THEN r
     ELSE IF FromRaises(r, a) THEN r1
     ELSE IF ToRaises(r, a) THEN r2
     ELSE [r3 EXCEPT !.time_type = IF a.time_type # "" THEN a.time_type ELSE @,
                     !.intent = IF a.intent # "" THEN a.intent ELSE @,
                     !.confidence = Min(1000, @ + 400)]

(* The analyzer is not running. *)
AnalyzerIdle ==
  /\ query = <<>>
  /\ now = NoDate
  /\ llm = NoAnswer
  /\ fast = EmptyAnalysis
  /\ result = EmptyAnalysis
  /\ apc = "Idle"

(* No retrieval is running. *)
RetrievalIdle ==
  /\ store = <<>>
  /\ chat = <<>>
  /\ req = BalanceRequest
  /\ pc = "Idle"
  /\ analysis = NoAnalysis
  /\ metadata_results = <<>>
  /\ temporal_results = <<>>
  /\ semantic_results = <<>>
  /\ keyword_results = <<>>
  /\ results = <<>>
  /\ merged = <<>>
  /\ items = <<>>
  /\ total = 0
  /\ failed = {}
  /\ ran = {}

(* analyze(query): result = QueryAnalysis(query=query) *)
AnalyzerInit ==
  /\ query \in QueryTexts
  /\ now \in Clocks
  /\ llm = NoAnswer
  /\ fast = EmptyAnalysis
  /\ result = EmptyAnalysis
  /\ apc = "Sources"
  /\ RetrievalIdle

ExtractSourcesFast ==
  /\ apc = "Sources"
  /\ result' = _extract_sources_fast(query, result)
  /\ apc' = "Entities"
  /\ UNCHANGED <<query, now, llm, fast>>
  /\ UNCHANGED rvars

ExtractEntitiesFast ==
  /\ apc = "Entities"
  /\ result' = _extract_entities_fast(query, result)
  /\ apc' = "Dates"
  /\ UNCHANGED <<query, now, llm, fast>>
  /\ UNCHANGED rvars

(* The ValueError of datetime(...) is caught nowhere in analyze. *)
ExtractDatesFast ==
  /\ apc = "Dates"
  /\ \/ /\ ~ExtractDatesRaises(query, now)
        /\ result' = _extract_dates_fast(query, now, result)
        /\ apc' = "Temporal"
     \/ /\ ExtractDatesRaises(query, now)
        /\ apc' = "Raised"
        /\ UNCHANGED result
  /\ UNCHANGED <<query, now, llm, fast>>
  /\ UNCHANGED rvars

(* fast keeps the result of the fast path as it is when step 2 of analyze
   is reached. *)
DetectTemporalType ==
  /\ apc = "Temporal"
  /\ result' = _detect_temporal_type(query, now, result)
  /\ fast' = result'
  /\ apc' = "Decide"
  /\ UNCHANGED <<query, now, llm>>
  /\ UNCHANGED rvars

(* `if use_llm and result.confidence < 0.7: await self._analyze_with_llm(...)`;
   return result *)
AnalyzeWithLlm ==
  /\ apc = "Decide"
  /\ result.confidence < 700
  /\ \E a \in LlmAnswers :
       /\ llm' = a
       /\ result' = _analyze_with_llm(result, a)
  /\ apc' = "Returned"
  /\ UNCHANGED <<query, now, fast>>
  /\ UNCHANGED rvars

ReturnFast ==
  /\ apc = "Decide"
  /\ ~(result.confidence < 700)
  /\ apc' = "Returned"
  /\ UNCHANGED <<query, now, llm, fast, result>>
  /\ UNCHANGED rvars

AnalyzerNext ==
  \/ ExtractSourcesFast
  \/ ExtractEntitiesFast
  \/ ExtractDatesFast
  \/ DetectTemporalType
  \/ AnalyzeWithLlm
  \/ ReturnFast

AnalyzerSpec == AnalyzerInit /\ [][AnalyzerNext]_vars

-----------------------------------------------------------------------------
(* The request, step by step *)

Init ==
  /\ \/ store \in Stores /\ req \in Requests
     \/ store \in BalanceStores /\ req = BalanceRequest
     \/ store \in RecentStores /\ req = RecentRequest
  /\ chat \in (IF req.include_episodic THEN Chats ELSE {<<>>})
  /\ pc = "Analyzing"
  /\ analysis = NoAnalysis
  /\ metadata_results = <<>>
  /\ temporal_results = <<>>
  /\ semantic_results = <<>>
  /\ keyword_results = <<>>
  /\ results = <<>>
  /\ merged = <<>>
  /\ items = <<>>
  /\ total = 0
  /\ failed = {}
  /\ ran = {}
  /\ AnalyzerIdle

(* STEP 1: analysis = await self.query_analyzer.analyze(query) *)
Analyze ==
  /\ pc = "Analyzing"
  /\ analysis' = req.query
  /\ pc' = "Metadata"
  /\ UNCHANGED <<store, chat, req, metadata_results, temporal_results,
                 semantic_results, keyword_results, results, merged, items,
                 total, failed, ran>>
  /\ UNCHANGED avars

(* STEP 2: metadata search for the extracted entities *)
MetadataSearch ==
  /\ pc = "Metadata"
  /\ \/ /\ analysis.entities = <<>>
        /\ UNCHANGED <<metadata_results, failed>>
     \/ /\ analysis.entities # <<>>
        /\ metadata_results' =
             MetadataRows(analysis.entities, {}, EffectiveSources(req, analysis),
                          analysis.date_from, analysis.date_to, req.limit)
        /\ UNCHANGED failed
     \/ /\ analysis.entities # <<>>
        /\ CanFail
        /\ \E failing \in SUBSET (1..Len(analysis.entities)) \ {{}} :
             metadata_results' =
               MetadataRows(analysis.entities, failing,
                            EffectiveSources(req, analysis),
                            analysis.date_from, analysis.date_to, req.limit)
        /\ failed' = failed \cup {"metadata"}
  /\ pc' = "Temporal"
  /\ UNCHANGED <<store, chat, req, analysis, temporal_results, semantic_results,
                 keyword_results, results, merged, items, total, ran>>
  /\ UNCHANGED avars

(* STEP 3: temporal queries; an exception of db.execute is not caught *)
GetMostRecent ==
  /\ pc = "Temporal"
  /\ \/ /\ ~(analysis.is_temporal /\ EffectiveSources(req, analysis) # {})
        /\ pc' = "Semantic"
        /\ UNCHANGED <<temporal_results, failed>>
     \/ /\ analysis.is_temporal /\ EffectiveSources(req, analysis) # {}
        /\ temporal_results' =
             MostRecentRows(EffectiveSources(req, analysis), req.limit)
        /\ pc' = "Semantic"
        /\ UNCHANGED failed
     \/ /\ analysis.is_temporal /\ EffectiveSources(req, analysis) # {}
        /\ CanFail
        /\ failed' = failed \cup {"item_store"}
        /\ pc' = "Raised"
        /\ UNCHANGED temporal_results
  /\ UNCHANGED <<store, chat, req, analysis, metadata_results, semantic_results,
                 keyword_results, results, merged, items, total, ran>>
  /\ UNCHANGED avars

(* retrieve, 1: semantic search. create_embedding returns None when the
   embedding API fails; an exception of the vector query is not caught. *)
SemanticSearch ==
  /\ pc = "Semantic"
  /\ \/ /\ semantic_results' =
             SemanticRows(EffectiveSources(req, analysis), analysis.date_from,
                          analysis.date_to, req.limit * 2)
        /\ pc' = "Entity"
        /\ UNCHANGED failed
     \/ /\ CanFail
        /\ failed' = failed \cup {"embedding"}
        /\ semantic_results' = <<>>
        /\ pc' = "Entity"
     \/ /\ CanFail
        /\ failed' = failed \cup {"vector_store"}
        /\ pc' = "Raised"
        /\ UNCHANGED semantic_results
  /\ results' = semantic_results'
  /\ UNCHANGED <<store, chat, req, analysis, metadata_results, temporal_results,
                 keyword_results, merged, items, total, ran>>
  /\ UNCHANGED avars

(* retrieve, 2: entity search with entity_filter = analysis.entities[0];
   neither of its two queries is guarded *)
EntitySearch ==
  /\ pc = "Entity"
  /\ \/ /\ analysis.entities = <<>>
        /\ pc' = "FullText"
        /\ UNCHANGED <<results, failed>>
     \/ /\ analysis.entities # <<>>
        /\ results' = results \o
             EntityRows(analysis.entities[1], EffectiveSources(req, analysis),
                        analysis.date_from, analysis.date_to, req.limit)
        /\ pc' = "FullText"
        /\ UNCHANGED failed
     \/ /\ analysis.entities # <<>>
        /\ CanFail
        /\ failed' = failed \cup {"entity_store"}
        /\ pc' = "Raised"
        /\ UNCHANGED results
  /\ UNCHANGED <<store, chat, req, analysis, metadata_results, temporal_results,
                 semantic_results, keyword_results, merged, items, total,
                 ran>>
  /\ UNCHANGED avars

(* retrieve, 3: full-text search; `except Exception: return []` *)
FulltextSearch ==
  /\ pc = "FullText"
  /\ \/ /\ results' = results \o
             FulltextRows(EffectiveSources(req, analysis), analysis.date_from,
                          analysis.date_to, req.limit)
        /\ UNCHANGED failed
     \/ /\ CanFail
        /\ failed' = failed \cup {"fulltext"}
        /\ UNCHANGED results
  /\ pc' = "Keyword"
  /\ UNCHANGED <<store, chat, req, analysis, metadata_results, temporal_results,
                 semantic_results, keyword_results, merged, items, total,
                 ran>>
  /\ UNCHANGED avars

(* An await on the vector query of _semantic_search or on the query of
   _fulltext_search that never returns: no call carries a timeout, and the
   strategies are awaited one after the other. *)
BackendNeverResponds ==
  /\ pc \in {"Semantic", "FullText"}
  /\ CanFail
  /\ failed' = failed \cup {IF pc = "Semantic" THEN "vector_store_stall"
                                               ELSE "fulltext_stall"}
  /\ pc' = "Stalled"
  /\ UNCHANGED <<store, chat, req, analysis, metadata_results, temporal_results,
                 semantic_results, keyword_results, results, merged, items,
                 total, ran>>
  /\ UNCHANGED avars

(* retrieve, 4: keyword search when semantic search returned nothing *)
KeywordSearch ==
  /\ pc = "Keyword"
  /\ \/ /\ ~RunsKeywordFallback(semantic_results, results)
        /\ UNCHANGED <<keyword_results, results, failed, ran>>
     \/ /\ RunsKeywordFallback(semantic_results, results)
        /\ ran' = ran \cup {"keyword"}
        /\ keyword_results' =
             KeywordRows(req.nkw, EffectiveSources(req, analysis),
                         analysis.date_from, analysis.date_to, req.limit * 2)
        /\ results' = results \o keyword_results'
        /\ UNCHANGED failed
     \/ /\ RunsKeywordFallback(semantic_results, results)
        /\ req.nkw > 0
        /\ CanFail
        /\ failed' = failed \cup {"keyword"}
        /\ ran' = ran \cup {"keyword"}
        /\ UNCHANGED <<keyword_results, results>>
  /\ pc' = "FallbackCheck"
  /\ UNCHANGED <<store, chat, req, analysis, metadata_results, temporal_results,
                 semantic_results, merged, items, total>>
  /\ UNCHANGED avars


(* retrieve, 5: the source filter gave nothing: full-text search again,
   without the source filter *)
FallbackFulltext ==
  /\ pc = "FallbackCheck"
  /\ \/ /\ ~RunsSourceFallback(EffectiveSources(req, analysis), results)
        /\ pc' = "Merging"
        /\ UNCHANGED <<results, failed, ran>>
     \/ /\ RunsSourceFallback(EffectiveSources(req, analysis), results)
        /\ ran' = ran \cup {"fulltext_retry"}
        /\ results' = results \o
             FulltextRows(RetrySources(EffectiveSources(req, analysis)),
                          analysis.date_from, analysis.date_to, req.limit)
        /\ pc' = IF results' = results THEN "FallbackKeyword" ELSE "Merging"
        /\ UNCHANGED failed
     \/ /\ RunsSourceFallback(EffectiveSources(req, analysis), results)
        /\ CanFail
        /\ ran' = ran \cup {"fulltext_retry"}
        /\ failed' = failed \cup {"fulltext_retry"}
        /\ pc' = "FallbackKeyword"
        /\ UNCHANGED results
  /\ UNCHANGED <<store, chat, req, analysis, metadata_results, temporal_results,
                 semantic_results, keyword_results, merged, items, total>>
  /\ UNCHANGED avars

(* retrieve, 5: `if not fts_fallback`: keyword search again, without the
   source filter *)
FallbackKeyword ==
  /\ pc = "FallbackKeyword"
  /\ ran' = ran \cup {"keyword_retry"}
  /\ \/ /\ results' = results \o
             KeywordRows(req.nkw, RetrySources(EffectiveSources(req, analysis)),
                         analysis.date_from, analysis.date_to, req.limit * 2)
        /\ UNCHANGED failed
     \/ /\ req.nkw > 0
        /\ CanFail
        /\ failed' = failed \cup {"keyword_retry"}
        /\ UNCHANGED results
  /\ pc' = "Merging"
  /\ UNCHANGED <<store, chat, req, analysis, metadata_results, temporal_results,
                 semantic_results, keyword_results, merged, items, total>>
  /\ UNCHANGED avars

(* retrieve: merged = self._merge_results(results) *)
Merge ==
  /\ pc = "Merging"
  /\ merged' = _merge_results(results)
  /\ pc' = "Scoring"
  /\ UNCHANGED <<store, chat, req, analysis, metadata_results, temporal_results,
                 semantic_results, keyword_results, results, items, total,
                 failed, ran>>
  /\ UNCHANGED avars

(* retrieve: _extract_query_entities (one unguarded entity-store query per word
   of length >= 3), _calculate_relevance, sort, truncate *)
Score ==
  /\ pc = "Scoring"
  /\ \/ /\ items' = BaseItems(_calculate_relevance(merged, analysis.sources),
                              req.limit)
        /\ total' = Len(items')
        /\ pc' = "EpisodicMerge"
        /\ UNCHANGED failed
     \/ /\ req.nkw > 0
        /\ CanFail
        /\ failed' = failed \cup {"entity_store"}
        /\ pc' = "Raised"
        /\ UNCHANGED <<items, total>>
  /\ UNCHANGED <<store, chat, req, analysis, metadata_results, temporal_results,
                 semantic_results, keyword_results, results, merged, ran>>
  /\ UNCHANGED avars

(* STEP 5 and 6 of retrieve_with_memory: append the metadata and temporal
   results not yet present, then the episodic memory. The conversation store
   answers with its messages; its failure is not caught, the embedding
   service's failure degrades every similarity to 0. *)
EpisodicMerge ==
  /\ pc = "EpisodicMerge"
  /\ LET appended == AppendNew(AppendNew(items, metadata_results), temporal_results)
     IN \/ /\ ~req.include_episodic
           /\ items' = appended
           /\ pc' = "Truncating"
           /\ UNCHANGED failed
        \/ /\ req.include_episodic
           /\ items' = appended \o EpisodicRows(chat, {}, EPISODIC_LIMIT)
           /\ pc' = "Truncating"
           /\ UNCHANGED failed
        \/ /\ req.include_episodic
           /\ CanFail
           /\ \E down \in SUBSET (1..Len(chat)) :
                /\ (chat # <<>> => down # {})
                /\ items' = appended \o EpisodicRows(chat, down, EPISODIC_LIMIT)
                /\ failed' = failed \cup
                     {IF down = 1..Len(chat) THEN "embedding_service_down"
                                             ELSE "episodic_embedding"}
           /\ pc' = "Truncating"
        \/ /\ req.include_episodic
           /\ CanFail
           /\ failed' = failed \cup {"conversation_store"}
           /\ items' = appended
           /\ pc' = "Raised"
  /\ UNCHANGED <<store, chat, req, analysis, metadata_results, temporal_results,
                 semantic_results, keyword_results, results, merged, total, ran>>
  /\ UNCHANGED avars

(* A last step that also records the query as a message of the current
   session. *)
TruncateAndRecord ==
  /\ pc = "Truncating"
  /\ items' = FinalItems(items, req.limit)
  /\ total' = Len(items')
  /\ chat' = Append(chat, Msg(TRUE, 0, 1000))
  /\ pc' = "Done"
  /\ UNCHANGED <<store, req, analysis, metadata_results, temporal_results,
                 semantic_results, keyword_results, results, merged, failed, ran>>
  /\ UNCHANGED avars

(* STEP 7: re-sort by relevance, limit, total, query_analysis; return *)
Truncate ==
  /\ pc = "Truncating"
  /\ items' = FinalItems(items, req.limit)
  /\ total' = Len(items')
  /\ pc' = "Done"
  /\ UNCHANGED <<store, chat, req, analysis, metadata_results, temporal_results,
                 semantic_results, keyword_results, results, merged, failed, ran>>
  /\ UNCHANGED avars

Next ==
  \/ Analyze
  \/ MetadataSearch
  \/ GetMostRecent
  \/ SemanticSearch
  \/ EntitySearch
  \/ FulltextSearch
  \/ BackendNeverResponds
  \/ KeywordSearch
  \/ FallbackFulltext
  \/ FallbackKeyword
  \/ Merge
  \/ Score
  \/ EpisodicMerge
  \/ Truncate

Spec == Init /\ [][Next]_vars


-----------------------------------------------------------------------------
(* Properties *)

Scored == {"EpisodicMerge", "Truncating", "Done"}

HasKind(its, kind) == \E k \in 1..Len(its) : its[k].source \in kind

(* C1: retrieve_with_memory never lets a backend exception escape to its
   caller, whichever backend call fails. *)
C1_NoExceptionEscapes == pc # "Raised"

(* C2: the list retrieve_with_memory returns holds no two items with the
   same id, whatever the overlap of the strategies' results. *)
C2_NoDuplicateIds == pc = "Done" => NoDupIds(items)

C2_Witness ==
  /\ pc = "Done"
  /\ Len(items) >= 2
  /\ ~NoDupIds(results)
  /\ (Ids(metadata_results) \cup Ids(temporal_results)) \cap Ids(merged) # {}

(* C3: the returned list is in non-increasing order of relevance_score (read
   as the final sort reads it, x.get("relevance_score", 0)), also when metadata,
   temporal and episodic items were appended to the base results. *)
C3_SortedByScore ==
  pc = "Done" =>
    \A i, j \in 1..Len(items) : i < j => ScoreKey(items[i]) >= ScoreKey(items[j])

C3_Witness ==
  /\ pc = "Done"
  /\ Len(items) >= 2
  /\ items[1].method \in {"temporal", "episodic"}
  /\ items[2].method \notin {"temporal", "episodic", "metadata"}

(* C4: the returned list has at most `limit` items and `total` is its
   length, however many items were appended after the base retrieval. *)
C4_AtMostLimit ==
  pc = "Done" => (Len(items) <= req.limit /\ total = Len(items))

C4_Witness ==
  /\ pc = "Done"
  /\ Len(items) = req.limit
  /\ Len(merged) >= req.limit
  /\ (Ids(metadata_results) \cup Ids(temporal_results)) \ Ids(merged) # {}

(* C5: whenever semantic search returned an empty list (an unavailable
   embedding service included), keyword search was run and every item it
   returned is in the merged candidate set handed to the scorer. *)
C5_KeywordFallbackMerged ==
  (pc \in {"Scoring"} \cup Scored /\ semantic_results = <<>>) =>
    ("keyword" \in ran /\ Ids(keyword_results) \subseteq Ids(merged))

C5_Witness ==
  /\ pc = "Scoring"
  /\ "embedding" \in failed
  /\ keyword_results # <<>>
  /\ Ids(keyword_results) \subseteq Ids(merged)
  /\ \E k \in 1..Len(results) : results[k].method = "fulltext"

UnfilteredMatch ==
  \E i \in 1..Len(store) :
     /\ store[i].owner = UserId
     /\ PassesFilters(store[i], {}, analysis.date_from, analysis.date_to)
     /\ \/ store[i].fts > 0 /\ "fulltext_retry" \notin failed
        \/ KeywordHits(store[i], req.nkw) > 0 /\ "keyword_retry" \notin failed

NoItemOfFilteredSources ==
  /\ EffectiveSources(req, analysis) # {}
  /\ \A i \in 1..Len(store) :
       store[i].owner = UserId => store[i].src \notin EffectiveSources(req, analysis)

(* C6: a source filter is in effect, the store holds no item of the filtered
   sources, and an item of another source matches the query (full-text or
   keyword, within the date range, the retry that finds it being answered):
   then the returned list is not empty. *)
C6_SourceFilterFallback ==
  (pc = "Done" /\ NoItemOfFilteredSources /\ UnfilteredMatch) => items # <<>>

C6_Witness ==
  /\ pc = "Done"
  /\ NoItemOfFilteredSources
  /\ UnfilteredMatch
  /\ "fulltext_retry" \in ran
  /\ chat = <<>>
  /\ items # <<>>

SameSemanticOneExplicit(a, b) ==
  /\ semantic_score(a) = semantic_score(b)
  /\ a.source \in analysis.sources
  /\ b.source \notin analysis.sources

(* C7: of two scored items with the same semantic score, the one whose source
   the query names has the strictly higher relevance_score and ranks above
   the other, whatever their other terms. *)
C7_ExplicitSourceAlwaysWins ==
  pc = "EpisodicMerge" =>
    \A i, j \in 1..Len(items) :
       SameSemanticOneExplicit(items[i], items[j]) =>
         (items[i].relevance_score > items[j].relevance_score /\ i < j)

(* C8: after every scoring step every relevance_score is >= 0. *)
C8_ScoreNonNegative ==
  pc \in Scored =>
    \A k \in 1..Len(items) :
       "relevance_score" \in items[k].has => items[k].relevance_score >= 0

(* C9: after every scoring step every item carries a relevance_score, and it
   lies in [0, 1]. *)
C9_ScoreInUnitInterval ==
  pc \in Scored =>
    \A k \in 1..Len(items) :
       /\ "relevance_score" \in items[k].has
       /\ items[k].relevance_score >= 0
       /\ items[k].relevance_score <= 1000

Mails == {"gmail", "outlook"}
Documents == {"gdrive", "onedrive"}

(* C10: for a temporal query naming mails and documents with limit 6, both
   kinds being in the store, the returned list holds an item of each kind. *)
C10_BothKindsReturned ==
  ( /\ pc = "Done"
    /\ analysis.is_temporal
    /\ analysis.sources = Mails \cup Documents
    /\ req.limit = 6
    /\ \E i \in 1..Len(store) : store[i].owner = UserId /\ store[i].src \in Mails
    /\ \E i \in 1..Len(store) : store[i].owner = UserId /\ store[i].src \in Documents )
  => (HasKind(items, Mails) /\ HasKind(items, Documents))

Primary(item) == item.source # "episodic"

MetadataContains(item, entities) ==
  \E k \in 1..Len(entities) : entities[k] \in store[item.id].meta

(* C11: for a request without source filter whose query yields analyzer
   entities and analyzer sources, every returned knowledge item has metadata
   containing an analyzer entity and a source among the analyzer's, and ranks
   above every item whose source the query did not name (conversation
   messages set aside, every backend answering, no retry without the source
   filter). *)
C11_OnlyEntityItemsOfNamedSource ==
  ( /\ pc = "Done"
    /\ req.sources = {}
    /\ analysis.entities # <<>>
    /\ analysis.sources # {}
    /\ failed = {}
    /\ "fulltext_retry" \notin ran )
  => /\ \A k \in 1..Len(items) :
          Primary(items[k]) =>
            /\ items[k].source \in analysis.sources
            /\ MetadataContains(items[k], analysis.entities)
     /\ \A i, j \in 1..Len(items) :
          ( /\ Primary(items[i]) /\ Primary(items[j])
            /\ items[i].source \in analysis.sources
            /\ items[j].source \notin analysis.sources ) => i < j

Episodic(item) == item.source = "episodic"

(* The ChatMessage row an episodic item was made from. *)
MsgOf(item) == chat[item.id - MsgId(0)]

(* C12: no conversation message whose similarity to the query is below 0.3 is
   among the episodic items, whatever its recency and its session. *)
C12_EpisodicGate ==
  pc \in {"Truncating", "Done"} =>
    \A k \in 1..Len(items) :
       Episodic(items[k]) => MsgOf(items[k]).sim >= EPISODIC_RELEVANCE_THRESHOLD

C12_Witness ==
  /\ pc = "Truncating"
  /\ failed = {}
  /\ \E k \in 1..Len(chat) :
       /\ chat[k].sim < EPISODIC_RELEVANCE_THRESHOLD
       /\ chat[k].days = 0
       /\ MsgId(k) \notin Ids(items)

(* C13 as claimed: in the returned list no episodic item ranks above an item
   of a primary source, whichever strategy found it (already for the items
   the scorer gave a positive score). *)
C13_EpisodicNeverAbovePrimary ==
  pc = "Done" =>
    \A i, j \in 1..Len(items) :
       (Episodic(items[i]) /\ Primary(items[j]) /\ ScoreKey(items[j]) > 0)
         => j < i

(* C13 as amended: every episodic item has a relevance of at most 0.5, and in
   the returned list no episodic item ranks above an item of a primary source
   whose relevance score exceeds 0.5. *)
C13_EpisodicCapped ==
  pc \in {"Truncating", "Done"} =>
    /\ \A k \in 1..Len(items) :
         Episodic(items[k]) => items[k].relevance_score <= 500
    /\ pc = "Done" =>
         \A i, j \in 1..Len(items) :
            (Episodic(items[i]) /\ Primary(items[j]) /\ ScoreKey(items[j]) > 500)
              => j < i

C13_Witness ==
  /\ pc = "Done"
  /\ \E i, j \in 1..Len(items) :
       /\ Primary(items[i]) /\ ScoreKey(items[i]) > 500
       /\ Episodic(items[j]) /\ items[j].relevance_score = 500
       /\ episodic_relevance_uncapped(MsgOf(items[j]), MsgOf(items[j]).sim) > 500
       /\ i < j

(* C14: when the backend of one strategy never responds, the request is not
   left waiting for it: a step (the strategy's timeout) remains to be taken,
   from which the request goes on to complete. *)
C14_StalledStrategyCompletes == pc = "Stalled" => ENABLED Next

(* C20: every non-episodic item of the returned list went through the merger
   and the scorer: it carries a relevance_score, which is the scorer's sum
   over the signals the item holds. *)
C20_EveryItemScoredByScorer ==
  pc = "Done" =>
    \A k \in 1..Len(items) :
       Primary(items[k]) =>
         /\ "relevance_score" \in items[k].has
         /\ items[k].relevance_score = final_score(items[k], analysis.sources)

OwnerOf(item) == IF Episodic(item) THEN MsgOf(item).owner ELSE store[item.id].owner

(* C19: every item of the list of retrieve_with_memory, whichever strategy,
   fallback or episodic retrieval produced it, is a row of the requesting
   user. *)
C19_OnlyOwnRows ==
  pc \in Scored => \A k \in 1..Len(items) : OwnerOf(items[k]) = UserId

C19_Witness ==
  /\ pc = "Done"
  /\ "fulltext_retry" \in ran
  /\ items # <<>>
  /\ \E i \in 1..Len(store) : store[i].owner = OtherUserId /\ store[i].fts > 0

(* Query analyzer properties, checked under AnalyzerSpec *)

(* analyze has returned after the slow path ran. *)
SlowPathRan == apc = "Returned" /\ llm # NoAnswer

(* C15: when the slow path fails at any point (the call raises, the output is
   not JSON, a date string of the output is invalid), analyze returns a
   QueryAnalysis equal in every field to the fast-path result. *)
C15_SlowPathFailureKeepsFast ==
  (SlowPathRan /\ LlmRaises(fast, llm)) => result = fast

(* C16: when the slow path succeeds, entities and sources are supersets of the
   fast-path values, and date_from, date_to and time_type are the fast path's
   whenever the fast path set them. (The fast path never assigns intent.) *)
C16_MergeKeepsFastFacts ==
  (SlowPathRan /\ ~LlmRaises(fast, llm)) =>
    /\ fast.entities \subseteq result.entities
    /\ fast.sources \subseteq result.sources
    /\ fast.date_from # NoDate => result.date_from = fast.date_from
    /\ fast.date_to # NoDate => result.date_to = fast.date_to
    /\ fast.time_type # "" => result.time_type = fast.time_type

(* The dates of the query have been extracted. *)
DatesExtracted == apc \in {"Temporal", "Decide", "Returned"}

(* The query names exactly one month, at word i, with no year after it and no
   "last" before it. *)
BareMonthAt(q, i) ==
  /\ q[i].is_month
  /\ \A j \in 1..Len(q) : (j # i => ~q[j].is_month) /\ q[j].year < 0 /\ ~q[j].is_last

(* C17: a bare month reference m evaluated at now (year y, month c) resolves
   to the whole month m of year y if m <= c and of year y - 1 if m > c. *)
C17_BareMonthMostRecent ==
  \A i \in 1..Len(query) :
    (DatesExtracted /\ BareMonthAt(query, i)) =>
      LET m == query[i].month
          y == IF m <= now.month THEN now.year ELSE now.year - 1
      IN /\ result.date_from = Date(y, m, 1, 0)
         /\ result.date_to = Date(y, m, DaysInMonth(y, m), 86399)

(* analyze is over, by a return or by an exception. *)
AnalyzeOver == apc \in {"Returned", "Raised"}

(* C18: for every "<Month> <Year>" reference analyze returns date_from at
   00:00:00 of the first day of that month, date_to at 23:59:59 of its last
   day, and time_type "specific". *)
C18_MonthYearWholeMonth ==
  \A i \in 1..(Len(query) - 1) :
    (AnalyzeOver /\ MonthYearMatch(query) = i) =>
      LET m == query[i].month
          y == query[i + 1].year
      IN /\ apc = "Returned"
         /\ result.date_from = Date(y, m, 1, 0)
         /\ result.date_to = Date(y, m, DaysInMonth(y, m), 86399)
         /\ result.time_type = "specific"

(* Retrieval properties, second part, checked under Spec *)

(* _get_most_recent ran for the request and returned. *)
TemporalRan ==
  /\ pc \notin {"Analyzing", "Metadata", "Temporal"}
  /\ analysis.is_temporal
  /\ EffectiveSources(req, analysis) # {}
  /\ "item_store" \notin failed

(* The requested sources of which the user has items. *)
SourcesWithItems ==
  {s \in EffectiveSources(req, analysis) :
     \E i \in 1..Len(store) : store[i].owner = UserId /\ store[i].src = s}

(* C21: when two or more sources are requested (and the limit leaves room for
   one item of each source that has items), the output of the Temporal
   strategy holds at least one item of every requested source that has items. *)
C21_NoSourceStarved ==
  ( /\ TemporalRan
    /\ Cardinality(EffectiveSources(req, analysis)) >= 2
    /\ req.limit >= Cardinality(SourcesWithItems) )
  => \A s \in SourcesWithItems :
        \E k \in 1..Len(temporal_results) : temporal_results[k].source = s

SignalFields == {"semantic_score", "fts_rank", "entity_match"}

(* The merger has run on the list `results` of retrieve. *)
Merged == pc \in {"Scoring"} \cup Scored

(* The first record of rs with this id that carries field f, 0 when none does. *)
FirstCarrying(rs, id, f) ==
  Leftmost({i \in 1..Len(rs) : rs[i].id = id /\ f \in rs[i].has})

(* C22: for every id of the strategy results the merger keeps one record, and
   each of its semantic_score, fts_rank and entity_match is the value of the
   first input record with that id carrying the field (absent when none
   carries it). *)
C22_MergeKeepsFirstSignals ==
  Merged =>
    \A id \in Ids(results) :
      \E k \in 1..Len(merged) :
        /\ merged[k].id = id
        /\ \A j \in 1..Len(merged) : j # k => merged[j].id # id
        /\ \A f \in SignalFields :
             LET i == FirstCarrying(results, id, f)
             IN IF i = 0 THEN f \notin merged[k].has
                ELSE f \in merged[k].has /\ merged[k][f] = results[i][f]

C22_Witness ==
  /\ pc = "Scoring"
  /\ \E i, j \in 1..Len(results) :
       /\ i < j
       /\ results[i].id = results[j].id
       /\ "semantic_score" \in results[i].has \cap results[j].has
       /\ results[i].semantic_score # results[j].semantic_score
       /\ \E l \in 1..Len(results) :
            results[l].id = results[i].id /\ "fts_rank" \in results[l].has

(* C23: the merger applied to its own output returns that output: same ids,
   same order, same signal fields, for the list of strategy results of every
   stage of retrieve. *)
C23_MergeIdempotent ==
  LET once == _merge_results(results)
  IN /\ _merge_results(once) = once
     /\ Merged => _merge_results(merged) = merged

C23_Witness ==
  /\ pc = "Scoring"
  /\ Len(merged) >= 2
  /\ Len(merged) < Len(results)
  /\ \E k \in 1..Len(merged) : Cardinality(merged[k].has) >= 2

(* _keyword_search ran and its query was answered. *)
KeywordRan == "keyword" \in ran /\ "keyword" \notin failed

(* C24: Keyword Fallback considers the first 5 tokens of length >= 3 and
   scores each returned item by the fraction of the considered tokens it
   contains: the score is in (0, 1], and 1 for an item containing all of the
   considered tokens. *)
C24_KeywordScoreIsFractionOfConsidered ==
  KeywordRan =>
    \A k \in 1..Len(keyword_results) :
      LET considered == Min(req.nkw, 5)
          found == Min(store[keyword_results[k].id].kw, considered)
          score == keyword_results[k].semantic_score
      IN /\ score = (found * 1000) \div considered
         /\ score > 0
         /\ score <= 1000
         /\ found = considered => score = 1000

(* Linear decay over 365 days from 0.2, in thousandths: 0 for an undated
   item, never above 0.2. *)
LinearDecay(created) ==
  IF created = 0 THEN 0
  ELSE Max(0, Min(200, 200 - ((RequestDay - created) * 200) \div 365))

(* C25: the recency term the scorer adds for an item decays linearly with the
   item's age over 365 days: 0.2 for an item created now, between 0 and 0.2
   for an item aged 1 to 364 days, 0 for older and undated items (every
   backend answering). *)
C25_RecencyLinearDecay ==
  (pc = "EpisodicMerge" /\ failed = {}) =>
    \A k \in 1..Len(items) :
      recency_score(store[items[k].id].created) =
        LinearDecay(store[items[k].id].created)

(* C26: a retrieval request is read-only: no step of retrieve_with_memory,
   on any path and whether it ends by a return or by an exception, changes
   the item store (with its embeddings and entity mentions) or the
   conversation store. *)
C26_StoresUnchanged == [][store' = store /\ chat' = chat]_vars

C26_Witness ==
  /\ pc = "Done"
  /\ store # <<>>
  /\ chat # <<>>
  /\ "fulltext_retry" \in ran
  /\ \E k \in 1..Len(items) : Episodic(items[k])

(* The items retrieve scored, in the order of their scores computed with the
   explicit sources given. *)
RankedIds(explicit_sources) ==
  LET ranked == BaseItems(_calculate_relevance(merged, explicit_sources), req.limit)
  IN [k \in 1..Len(ranked) |-> ranked[k].id]

(* C28: for a request without source filter, every backend answering, the
   explicit-source boost is applied to every item scored in the request or to
   none of them, and the scored items are ranked as they would be without the
   boost. *)
C28_BoostAllOrNone ==
  (pc = "EpisodicMerge" /\ req.sources = {} /\ failed = {}) =>
    /\ \/ \A k \in 1..Len(merged) :
            explicit_source_boost(merged[k], analysis.sources) = EXPLICIT_SOURCE_BOOST
       \/ \A k \in 1..Len(merged) :
            explicit_source_boost(merged[k], analysis.sources) = 0
    /\ [k \in 1..Len(items) |-> items[k].id] = RankedIds({})

C28_Witness ==
  /\ pc = "EpisodicMerge"
  /\ req.sources = {}
  /\ failed = {}
  /\ items # <<>>
  /\ \A k \in 1..Len(items) : items[k].source \in analysis.sources
  /\ \E i \in 1..Len(store) :
       /\ store[i].owner = UserId
       /\ store[i].src \notin analysis.sources
       /\ store[i].fts > 0

Strategies == {"semantic", "entity", "fulltext", "keyword"}

(* The result list of one strategy, in its own order. *)
ListOf(method) == SelectSeq(results, LAMBDA r : r.method = method)

(* The orders in which the lists of the strategies S can be concatenated. *)
OrdersOf(S) ==
  {o \in [1..Cardinality(S) -> S] :
     \A i, j \in 1..Cardinality(S) : i # j => o[i] # o[j]}

(* The relevance_score of each id after merging and scoring the list rs. *)
ScoresOf(rs) ==
  LET scored == _calculate_relevance(_merge_results(rs), analysis.sources)
  IN {<<scored[k].id, scored[k].relevance_score>> : k \in 1..Len(scored)}

(* C29: concatenating the result lists of the strategies in any order, each
   list in its own order, gives the same ids and the same relevance_score for
   each id as the order retrieve uses. (The place of an empty list makes no
   difference to the concatenation: the orders are those of the strategies
   that returned something.) *)
C29_ScoreIndependentOfListOrder ==
  pc = "Scoring" =>
    LET lists == [m \in Strategies |-> ListOf(m)]
        present == {m \in Strategies : lists[m] # <<>>}
        scores == ScoresOf(results)
    IN \A o \in OrdersOf(present) :
         ScoresOf(Flatten([i \in 1..Cardinality(present) |-> lists[o[i]]])) = scores

C29_Witness ==
  /\ pc = "Scoring"
  /\ Len(merged) >= 2
  /\ \E i, j \in 1..Len(results) :
       /\ results[i].id = results[j].id
       /\ results[i].method = "semantic"
       /\ results[j].method = "fulltext"
  /\ \E i, j \in 1..Len(results) :
       /\ results[i].id = results[j].id
       /\ results[i].method = "semantic"
       /\ results[j].method = "entity"

(* The embedding service failed on the query and on every message of
   get_episodic_memory. *)
EmbeddingServiceDown == "embedding_service_down" \in failed

(* C30: when the embedding service is unavailable, get_episodic_memory raises
   nothing and returns an empty list: retrieve_with_memory goes on and no
   episodic item is in its list. *)
C30_NoEpisodicWithoutEmbeddings ==
  EmbeddingServiceDown =>
    /\ pc \in {"Truncating", "Done"}
    /\ \A k \in 1..Len(items) : ~Episodic(items[k])

C30_Witness ==
  /\ pc = "Done"
  /\ EmbeddingServiceDown
  /\ \E k \in 1..Len(chat) :
       /\ chat[k].owner = UserId
       /\ chat[k].sim >= EPISODIC_RELEVANCE_THRESHOLD
       /\ chat[k].days = 0
  /\ \A k \in 1..Len(items) : ~Episodic(items[k])

(* Query analyzer properties, second part, checked under AnalyzerSpec *)

(* The confidence of a result whose categories were extracted as told. *)
CategorySum(sources, entities, dates) ==
  (IF sources THEN 300 ELSE 0) + (IF entities THEN 200 ELSE 0)
    + (IF dates THEN 300 ELSE 0)

(* C27: the confidence of the fast path is the sum of one increment per
   category it extracted (sources 0.3, entities 0.2, dates 0.3); without a
   successful LLM call the returned confidence is that sum, at most 0.8, and
   after every analyze call it lies in [0, 1]. *)
C27_ConfidenceAdditive ==
  /\ apc = "Temporal" =>
       result.confidence =
         CategorySum(result.sources # {}, result.entities # {},
                     result.date_from # NoDate)
  /\ apc \in {"Decide", "Returned"} =>
       /\ fast.confidence \in
            {CategorySum(s, e, d) : s \in BOOLEAN, e \in BOOLEAN, d \in BOOLEAN}
       /\ fast.confidence <= 800
  /\ (apc = "Returned" /\ (llm = NoAnswer \/ LlmRaises(fast, llm))) =>
       result.confidence = fast.confidence
  /\ apc = "Returned" => (result.confidence >= 0 /\ result.confidence <= 1000)

C27_Witness ==
  /\ apc = "Returned"
  /\ llm = NoAnswer
  /\ result.confidence = 800
  /\ Cardinality(result.sources) >= 2

====
